---- MODULE Spec2Model ----
(***************************************************************************)
(* Model of UnityModuleRegistryManager                                     *)
(* (src/unity_module_registry_manager.py): the in-memory registry, the     *)
(* persisted registry document, the scanned asset tree and the queries.    *)
(*                                                                         *)
(* Python values are tagged records (None, str, bool, int, datetime, list, *)
(* dict).  A str is a sequence of symbols, so that substring, prefix and   *)
(* suffix tests are computed and not assumed.  A YAML document is a tree   *)
(* of nodes (plain or quoted scalars, sequences, mappings): safe_dump      *)
(* represents values as nodes and safe_load resolves nodes to values.      *)
(***************************************************************************)
EXTENDS Integers, Sequences, FiniteSets, TLC

VARIABLES
    unity_project_path,  \* self.unity_project_path: None or a str
    modules,             \* self.modules: sequence of UnityModule records
    last_scan,           \* self.last_scan: None or a datetime
    registry_version,    \* self.registry_version
    alive,               \* a manager object exists (its constructor returned)
    project,             \* the file system under the Unity project path
    registry_file,       \* the file at self.registry_path
    data_dir,            \* self.registry_path.parent exists
    clock,               \* the wall clock read by datetime.now()
    edits,               \* number of changes made to the file system from outside
    op,                  \* the last operation performed
    result,              \* what it returned or raised
    saved                \* who wrote the registry document last, and the modules
                         \* save_registry() wrote

vars == <<unity_project_path, modules, last_scan, registry_version, alive,
          project, registry_file, data_dir, clock, edits, op, result, saved>>

----------------------------------------------------------------------------
(* Bounds of the model *)

\* datetime.now() is read at most this many times
MaxClock == 2
\* the file system is changed from outside at most this many times
MaxEdits == 1

----------------------------------------------------------------------------
(* Python values *)

None == [k |-> "none"]
Str(s) == [k |-> "str", s |-> s]
Bool(b) == [k |-> "bool", b |-> b]
IntV(n) == [k |-> "int", n |-> n]
DateTime(t) == [k |-> "datetime", t |-> t]
List(xs) == [k |-> "list", items |-> xs]
Dict(m) == [k |-> "dict", m |-> m]
EmptyDict == Dict(<<>>)

\* bool(v)
Truthy(v) ==
    CASE v.k = "none" -> FALSE
      [] v.k = "bool" -> v.b
      [] v.k = "int" -> v.n # 0
      [] v.k = "str" -> v.s # <<>>
      [] v.k = "list" -> v.items # <<>>
      [] v.k = "dict" -> DOMAIN v.m # {}
      [] OTHER -> TRUE

\* v or {}
OrEmptyDict(v) == IF Truthy(v) THEN v ELSE EmptyDict

\* d.get(key, default) on a dict d
Get(d, key, default) == IF key \in DOMAIN d.m THEN d.m[key] ELSE default

\* hasattr(v, "get"): of the values modelled only a dict has .get
HasGet(v) == v.k = "dict"

RECURSIVE SetToSeq(_)
SetToSeq(S) ==
    IF S = {} THEN <<>>
    ELSE LET x == CHOOSE y \in S : TRUE IN <<x>> \o SetToSeq(S \ {x})

\* iter(v) succeeds
Iterable(v) == v.k \in {"list", "str", "dict"}

\* list(iter(v)): the items of a list, the characters of a str, the keys of a dict
Iter(v) ==
    CASE v.k = "list" -> v.items
      [] v.k = "str" -> [i \in 1..Len(v.s) |-> Str(<<v.s[i]>>)]
      [] v.k = "dict" -> LET ks == SetToSeq(DOMAIN v.m)
                         IN [i \in 1..Len(ks) |-> Str(<<ks[i]>>)]
      [] OTHER -> <<>>

\* a.startswith(b) on symbol sequences
StartsWith(a, b) == Len(b) <= Len(a) /\ SubSeq(a, 1, Len(b)) = b

\* a.endswith(b)
EndsWith(a, b) == Len(b) <= Len(a) /\ SubSeq(a, Len(a) - Len(b) + 1, Len(a)) = b

\* b in a, for two str
Contains(a, b) == \E i \in 0..(Len(a) - Len(b)) : SubSeq(a, i + 1, i + Len(b)) = b

----------------------------------------------------------------------------
(* datetime.isoformat and datetime.fromisoformat *)

\* the instants the model distinguishes
Instants == 0..(MaxClock + 1)

\* datetime.isoformat(): the text of an instant
isoformat(t) == <<"T", ToString(t)>>

\* the text is the ISO text of some instant
IsIsoText(s) == \E t \in Instants : isoformat(t) = s

\* datetime.fromisoformat(s) for an ISO text s
fromisoformat(s) == CHOOSE t \in Instants : isoformat(t) = s

----------------------------------------------------------------------------
(* YAML: nodes, safe_load's construction and safe_dump's representation *)

Plain(s) == [y |-> "plain", text |-> s]
Quoted(s) == [y |-> "quoted", text |-> s]
SeqNode(xs) == [y |-> "seq", items |-> xs]
MapNode(m) == [y |-> "map", m |-> m]

\* the implicit resolver of YAML 1.1 on a plain scalar
Resolve(s) ==
    CASE s = <<>> \/ s = <<"~">> \/ s = <<"null">> -> None
      [] s = <<"true">> -> Bool(TRUE)
      [] s = <<"false">> -> Bool(FALSE)
      [] s = <<"0">> -> IntV(0)
      [] s = <<"7">> -> IntV(7)
      [] IsIsoText(s) -> DateTime(fromisoformat(s))
      [] OTHER -> Str(s)

\* yaml.safe_load: the value a node constructs
RECURSIVE safe_load(_)
safe_load(n) ==
    CASE n.y = "plain" -> Resolve(n.text)
      [] n.y = "quoted" -> Str(n.text)
      [] n.y = "seq" -> List([i \in 1..Len(n.items) |-> safe_load(n.items[i])])
      [] OTHER -> Dict([key \in DOMAIN n.m |-> safe_load(n.m[key])])

\* a dump that never quotes a str
RepresentStrPlain(s) == Plain(s)

\* A str is written plain only when the plain scalar would be read back as a str
RepresentStr(s) == IF Resolve(s).k = "str" THEN Plain(s) ELSE Quoted(s)

\* yaml.safe_dump: the node that represents a value
RECURSIVE safe_dump(_)
safe_dump(v) ==
    CASE v.k = "none" -> Plain(<<"null">>)
      [] v.k = "bool" -> Plain(IF v.b THEN <<"true">> ELSE <<"false">>)
      [] v.k = "int" -> Plain(<<ToString(v.n)>>)
      [] v.k = "datetime" -> Plain(isoformat(v.t))
      [] v.k = "str" -> RepresentStr(v.s)
      [] v.k = "list" -> SeqNode([i \in 1..Len(v.items) |-> safe_dump(v.items[i])])
      [] OTHER -> MapNode([key \in DOMAIN v.m |-> safe_dump(v.m[key])])

----------------------------------------------------------------------------
(* Files *)

Absent == [f |-> "absent"]
\* open() raises OSError (no read permission)
Unreadable == [f |-> "unreadable"]
\* the bytes are not valid UTF-8: reading raises UnicodeDecodeError, a ValueError
Undecodable == [f |-> "undecodable"]
\* the text is not YAML: safe_load raises YAMLError
BadYaml == [f |-> "badyaml"]
YamlFile(n) == [f |-> "yaml", node |-> n]

\* The outcome of open() + yaml.safe_load(): the exception raised, or the value
ReadYaml(file) ==
    CASE file.f = "unreadable" -> [exc |-> "OSError"]
      [] file.f = "undecodable" -> [exc |-> "UnicodeDecodeError"]
      [] file.f = "badyaml" -> [exc |-> "YAMLError"]
      [] OTHER -> [exc |-> "none", value |-> safe_load(file.node)]

----------------------------------------------------------------------------
(* Exceptions *)

\* The built-in class an exception class derives from
BaseOf(exc) ==
    CASE exc = "UnicodeDecodeError" -> "ValueError"
      [] exc = "FileNotFoundError" -> "OSError"
      [] OTHER -> exc

\* "except handlers" catches exc
Catches(handlers, exc) == exc \in handlers \/ BaseOf(exc) \in handlers

----------------------------------------------------------------------------
(* UnityModule *)

UnityModule(name, type, path, has_yaml, version, description, dependencies, assembly) ==
    [name |-> name, type |-> type, path |-> path, has_yaml |-> has_yaml,
     version |-> version, description |-> description,
     dependencies |-> dependencies, assembly |-> assembly]

\* registry_version as __init__ sets it
DefaultVersion == <<"1", ".", "0", ".", "0">>

\* MODULE_TYPE_FOLDERS, in its declared order
MODULE_TYPE_FOLDERS ==
    << <<"_Core", "core">>, <<"_Managers", "manager">>, <<"_Shared", "shared">>,
       <<"Features", "feature">>, <<"Levels", "level">>,
       <<"ThirdParty", "thirdparty">>, <<"_Extensions", "extension">> >>

\* set(self.MODULE_TYPE_FOLDERS.values())
valid_types == {MODULE_TYPE_FOLDERS[i][2] : i \in 1..Len(MODULE_TYPE_FOLDERS)}

----------------------------------------------------------------------------
(* _load_registry *)

\* the exceptions _load_registry handles
LoadHandlers == {"OSError", "YAMLError", "ValueError", "KeyError"}

\* UnityModule(...) built from one entry of the document's modules
ModuleFromData(mod_data) ==
    UnityModule(Get(mod_data, "name", Str(<<>>)),
                Get(mod_data, "type", Str(<<>>)),
                Get(mod_data, "path", Str(<<>>)),
                Get(mod_data, "has_yaml", Bool(FALSE)),
                Get(mod_data, "version", None),
                Get(mod_data, "description", None),
                Get(mod_data, "dependencies", List(<<>>)),
                Get(mod_data, "assembly", None))

\* The outcome of a load that ran up to an exception exc (or "none") with the
\* fields as assigned so far; a handled exception resets the module list.
LoadOutcome(exc, m, ls, rv) ==
    IF exc # "none" /\ Catches(LoadHandlers, exc)
    THEN [exc |-> "none", caught |-> exc, modules |-> <<>>, last_scan |-> ls,
          registry_version |-> rv]
    ELSE [exc |-> exc, caught |-> "none", modules |-> m, last_scan |-> ls,
          registry_version |-> rv]

\* the list comprehension over data.get("modules", [])
LoadModules(mods_raw, m, ls, rv) ==
    IF ~Iterable(mods_raw) THEN LoadOutcome("TypeError", m, ls, rv)
    ELSE LET items == Iter(mods_raw) IN
         IF \E i \in 1..Len(items) : ~HasGet(items[i])
         THEN LoadOutcome("AttributeError", m, ls, rv)
         ELSE LoadOutcome("none", [i \in 1..Len(items) |-> ModuleFromData(items[i])],
                          ls, rv)

\* _load_registry from the statement that reads last_scan on
LoadLastScan(data, m, ls, rv) ==
    LET raw == Get(data, "last_scan", None)
        mods_raw == Get(data, "modules", List(<<>>))
    IN IF ~Truthy(raw) THEN LoadModules(mods_raw, m, ls, rv)
       ELSE IF raw.k # "str" THEN LoadOutcome("TypeError", m, ls, rv)
       ELSE IF ~IsIsoText(raw.s) THEN LoadOutcome("ValueError", m, ls, rv)
       ELSE LoadModules(mods_raw, m, DateTime(fromisoformat(raw.s)), rv)

\* _load_registry on the file at registry_path, from the fields m, ls, rv
_load_registry(file, m, ls, rv) ==
    IF file.f = "absent" THEN LoadOutcome("none", m, ls, rv)
    ELSE LET r == ReadYaml(file) IN
         IF r.exc # "none" THEN LoadOutcome(r.exc, m, ls, rv)
         ELSE LET data == OrEmptyDict(r.value) IN
              IF ~HasGet(data) THEN LoadOutcome("AttributeError", m, ls, rv)
              ELSE LoadLastScan(data, m, ls,
                                Get(data, "version", Str(DefaultVersion)))
----------------------------------------------------------------------------
(* scan_modules and _scan_single_module *)

\* str(self.unity_project_path) of a configured project
ProjectPath == <<"/", "proj">>

\* the exceptions _scan_single_module handles
ScanHandlers == {"OSError", "YAMLError"}

\* str(folder.relative_to(self.unity_project_path))
RelativePath(folder_name, name) == <<"Assets", "/", folder_name, "/">> \o name

\* the record _scan_single_module builds before it reads module.yaml
DefaultModule(folder_name, module_type, entry) ==
    UnityModule(Str(entry.name), Str(<<module_type>>),
                Str(RelativePath(folder_name, entry.name)),
                Bool(entry.module_yaml.f # "absent"),
                None, None, List(<<>>), None)

\* the overlay of the values of module.yaml
Overlay(module, yaml_data) ==
    [module EXCEPT
        !.name = IF Truthy(Get(yaml_data, "name", None))
                 THEN Get(yaml_data, "name", None) ELSE @,
        !.version = Get(yaml_data, "version", None),
        !.description = Get(yaml_data, "description", None),
        !.dependencies = Get(yaml_data, "dependencies", List(<<>>)),
        !.assembly = Get(yaml_data, "assembly", None)]

\* _scan_single_module: the exception it raises, or the module
_scan_single_module(folder_name, module_type, entry) ==
    LET module == DefaultModule(folder_name, module_type, entry) IN
    IF entry.module_yaml.f = "absent" THEN [exc |-> "none", module |-> module]
    ELSE LET r == ReadYaml(entry.module_yaml) IN
         IF r.exc # "none"
         THEN IF Catches(ScanHandlers, r.exc)
              THEN [exc |-> "none", module |-> module]
              ELSE [exc |-> r.exc, module |-> module]
         ELSE LET yaml_data == OrEmptyDict(r.value) IN
              IF ~HasGet(yaml_data) THEN [exc |-> "AttributeError", module |-> module]
              ELSE [exc |-> "none", module |-> Overlay(module, yaml_data)]

\* the folders the inner loop of scan_modules skips
Skipped(entry) ==
    \/ ~entry.is_dir
    \/ StartsWith(entry.name, <<".">>)
    \/ StartsWith(entry.name, <<"~">>)

\* the inner loop of scan_modules over type_folder.iterdir(), appending to found
RECURSIVE ScanFolder(_, _, _, _)
ScanFolder(folder_name, module_type, entries, found) ==
    IF entries = <<>> THEN [exc |-> "none", modules |-> found]
    ELSE IF Skipped(Head(entries))
    THEN ScanFolder(folder_name, module_type, Tail(entries), found)
    ELSE LET r == _scan_single_module(folder_name, module_type, Head(entries)) IN
         IF r.exc # "none" THEN [exc |-> r.exc, modules |-> found]
         ELSE ScanFolder(folder_name, module_type, Tail(entries),
                         Append(found, r.module))

\* the outer loop of scan_modules over MODULE_TYPE_FOLDERS from index i
RECURSIVE ScanTypes(_, _, _)
ScanTypes(proj, i, found) ==
    IF i > Len(MODULE_TYPE_FOLDERS) THEN [exc |-> "none", modules |-> found]
    ELSE LET folder_name == MODULE_TYPE_FOLDERS[i][1]
             module_type == MODULE_TYPE_FOLDERS[i][2]
         IN IF folder_name \notin DOMAIN proj.folders
            THEN ScanTypes(proj, i + 1, found)
            ELSE LET r == ScanFolder(folder_name, module_type,
                                     proj.folders[folder_name], found)
                 IN IF r.exc # "none" THEN r ELSE ScanTypes(proj, i + 1, r.modules)

\* a scan that appends to the list already held
ScanStartPrior(m) == m

\* the list scan_modules starts from
ScanStart(m) == <<>>

\* a scan that does not check for the Assets folder
scan_modules_NoAssetsCheck(path, proj, m) ==
    IF ~Truthy(path) \/ ~proj.root
    THEN [exc |-> "UnityModuleRegistryError", modules |-> m]
    ELSE ScanTypes(proj, 1, ScanStart(m))

\* scan_modules: the exception raised, or the discovered list
scan_modules(path, proj, m) ==
    IF ~Truthy(path) \/ ~proj.root
    THEN [exc |-> "UnityModuleRegistryError", modules |-> m]
    ELSE IF ~proj.assets
    THEN [exc |-> "UnityModuleRegistryError", modules |-> m]
    ELSE ScanTypes(proj, 1, ScanStart(m))

----------------------------------------------------------------------------
(* save_registry *)

\* one entry of the document's modules
ModuleData(m) ==
    Dict([key \in {"name", "type", "path", "has_yaml", "version", "description",
                   "dependencies", "assembly"} |-> m[key]])

\* the dict save_registry dumps
SaveData(rv, path, ls, m) ==
    Dict([key \in {"version", "project_path", "last_scan", "modules"} |->
            CASE key = "version" -> rv
              [] key = "project_path" -> path
              [] key = "last_scan" -> IF Truthy(ls) THEN Str(isoformat(ls.t)) ELSE None
              [] OTHER -> List([i \in 1..Len(m) |-> ModuleData(m[i])])])

\* open(self.registry_path, "w") fails when the parent directory is missing
save_registry(dir_exists, rv, path, ls, m) ==
    IF ~dir_exists THEN [exc |-> "UnityModuleRegistryError", cause |-> "FileNotFoundError"]
    ELSE [exc |-> "none", file |-> YamlFile(safe_dump(SaveData(rv, path, ls, m)))]
----------------------------------------------------------------------------
(* get_modules *)

\* module_type not in valid_types
InvalidType(module_type) ==
    ~(module_type.k = "str" /\ \E t \in valid_types : module_type.s = <<t>>)

\* the test that decides whether get_modules applies the filter
FilterGiven(module_type) == Truthy(module_type)

\* get_modules(module_type): module_type is None or a str
get_modules(ms, module_type) ==
    IF FilterGiven(module_type)
    THEN IF InvalidType(module_type)
         THEN [exc |-> "ValueError", value |-> <<>>]
         ELSE [exc |-> "none",
               value |-> LET same_type(m) == m.type = module_type
                         IN SelectSeq(ms, same_type)]
    ELSE [exc |-> "none", value |-> ms]

----------------------------------------------------------------------------
(* find_dependents *)

\* a match on the whole entry or on its last path segment only
DepMatchExact(name, dep) ==
    IF dep.k # "str" \/ name.k # "str" THEN "TypeError"
    ELSE IF dep.s = name.s \/ EndsWith(dep.s, <<"/">> \o name.s) THEN "yes" ELSE "no"

\* "name in dep or dep.endswith(f'/{name}')" for one entry:
\* "yes", "no", or the exception the expression raises
DepMatch(name, dep) ==
    CASE dep.k = "str" ->
            IF name.k # "str" THEN "TypeError"
            ELSE IF Contains(dep.s, name.s) \/ EndsWith(dep.s, <<"/">> \o name.s)
                 THEN "yes" ELSE "no"
      [] dep.k = "list" ->
            IF \E i \in 1..Len(dep.items) : dep.items[i] = name
            THEN "yes" ELSE "AttributeError"
      [] dep.k = "dict" ->
            IF name.k = "str" /\ Len(name.s) = 1 /\ name.s[1] \in DOMAIN dep.m
            THEN "yes" ELSE "AttributeError"
      [] OTHER -> "TypeError"

\* the inner loop of find_dependents over one module's dependencies
RECURSIVE AnyDepMatches(_, _)
AnyDepMatches(name, deps) ==
    IF deps = <<>> THEN "no"
    ELSE LET r == DepMatch(name, Head(deps)) IN
         IF r = "no" THEN AnyDepMatches(name, Tail(deps)) ELSE r

\* the outer loop of find_dependents, appending to dependents
RECURSIVE FindLoop(_, _, _)
FindLoop(name, ms, dependents) ==
    IF ms = <<>> THEN [exc |-> "none", value |-> dependents]
    ELSE IF ~Iterable(Head(ms).dependencies)
    THEN [exc |-> "TypeError", value |-> <<>>]
    ELSE LET r == AnyDepMatches(name, Iter(Head(ms).dependencies)) IN
         CASE r = "yes" -> FindLoop(name, Tail(ms), Append(dependents, Head(ms)))
           [] r = "no" -> FindLoop(name, Tail(ms), dependents)
           [] OTHER -> [exc |-> r, value |-> <<>>]

\* find_dependents(name)
find_dependents(ms, name) == FindLoop(name, ms, <<>>)

----------------------------------------------------------------------------
(* _get_orphaned_modules and generate_report *)

\* an orphan test that takes either condition
IsOrphanEither(has_no_deps, has_no_dependents) == has_no_deps \/ has_no_dependents

\* "has_no_deps and has_no_dependents"
IsOrphan(has_no_deps, has_no_dependents) == has_no_deps /\ has_no_dependents

\* the loop of _get_orphaned_modules over rest, appending to orphans
RECURSIVE OrphanLoop(_, _, _)
OrphanLoop(ms, rest, orphans) ==
    IF rest = <<>> THEN [exc |-> "none", value |-> orphans]
    ELSE LET module == Head(rest)
             dependents == find_dependents(ms, module.name)
         IN IF dependents.exc # "none" THEN [exc |-> dependents.exc, value |-> <<>>]
            ELSE IF IsOrphan(~Truthy(module.dependencies), Len(dependents.value) = 0)
            THEN OrphanLoop(ms, Tail(rest), Append(orphans, module))
            ELSE OrphanLoop(ms, Tail(rest), orphans)

\* _get_orphaned_modules()
_get_orphaned_modules(ms) == OrphanLoop(ms, ms, <<>>)

\* hash(v) succeeds
Hashable(v) == v.k \notin {"list", "dict"}

\* the dependency-graph section's "dep.split('/')[-1] if '/' in dep else dep"
\* followed by _sanitize_mermaid_id: "ok" or the exception raised
EdgeOutcome(dep) ==
    CASE dep.k = "str" -> "ok"
      [] dep.k = "list" ->
            IF \E i \in 1..Len(dep.items) : dep.items[i] = Str(<<"/">>)
            THEN "AttributeError" ELSE "TypeError"
      [] dep.k = "dict" ->
            IF "/" \in DOMAIN dep.m THEN "AttributeError" ELSE "TypeError"
      [] OTHER -> "TypeError"

\* the dependency-graph loop over the modules: the exception raised, or the
\* number of edges collected
RECURSIVE EdgeLoop(_, _)
EdgeLoop(ms, n) ==
    IF ms = <<>> THEN [exc |-> "none", edges |-> n]
    ELSE LET module == Head(ms) IN
         IF ~Truthy(module.dependencies) THEN EdgeLoop(Tail(ms), n)
         ELSE IF module.name.k # "str" \/ ~Iterable(module.dependencies)
         THEN [exc |-> "TypeError", edges |-> n]
         ELSE LET deps == Iter(module.dependencies)
                  bad == {i \in 1..Len(deps) : EdgeOutcome(deps[i]) # "ok"}
              IN IF bad # {}
                 THEN [exc |-> EdgeOutcome(deps[CHOOSE i \in bad : \A j \in bad : i <= j]),
                       edges |-> n]
                 ELSE EdgeLoop(Tail(ms), n + Len(deps))

\* sorted(ms, key=lambda x: x.name) succeeds: the names compared are all str or
\* all int (a list of fewer than two is never compared)
Sortable(ms) ==
    \/ Len(ms) < 2
    \/ \A i \in 1..Len(ms) : ms[i].name.k = "str"
    \/ \A i \in 1..Len(ms) : ms[i].name.k = "int"

\* generate_report: the exception raised, or the dict returned
generate_report(ms) ==
    LET no_yaml(m) == ~Truthy(m.has_yaml)
        missing_yaml == SelectSeq(ms, no_yaml)
        edges == EdgeLoop(ms, 0)
        orphans == _get_orphaned_modules(ms)
    IN IF \E i \in 1..Len(ms) : ~Hashable(ms[i].type)
       THEN [exc |-> "TypeError"]
       ELSE IF edges.exc # "none" THEN [exc |-> edges.exc]
       ELSE IF ~Sortable(missing_yaml) THEN [exc |-> "TypeError"]
       ELSE IF orphans.exc # "none" THEN [exc |-> orphans.exc]
       ELSE IF ~Sortable(orphans.value) THEN [exc |-> "TypeError"]
       ELSE [exc |-> "none", success |-> TRUE, total_modules |-> Len(ms),
             missing_yaml_count |-> Len(missing_yaml),
             orphans |-> orphans.value,
             orphan_count |-> Len(orphans.value),
             dependency_edges |-> edges.edges]
----------------------------------------------------------------------------
(* The file systems and documents the model draws from *)

Combat == <<"Combat">>
CombatSystem == <<"Combat", "System">>
SystemsCombat == <<"Systems", "/", "Combat">>
Audio == <<"Audio">>
Menu == <<"Menu">>
Inventory == <<"Inventory">>

\* one child of a type folder, as iterdir() yields it
Entry(name, is_dir, module_yaml) ==
    [name |-> name, is_dir |-> is_dir, module_yaml |-> module_yaml]

Tree(root, assets, folders) == [root |-> root, assets |-> assets, folders |-> folders]

\* descriptors that parse to a mapping, hidden and backup folders, a plain file,
\* descriptors that are invalid YAML, unreadable or empty
ProjectA ==
    Tree(TRUE, TRUE,
         ("_Core" :> << Entry(Combat, TRUE, Absent),
                        Entry(<<".", "git">>, TRUE, Absent),
                        Entry(<<"readme">>, FALSE, Absent),
                        Entry(Audio, TRUE, BadYaml) >>)
      @@ ("Features" :> << Entry(CombatSystem, TRUE,
                                 YamlFile(MapNode(
                                     ("version" :> Quoted(<<"7">>))
                                  @@ ("description" :> Quoted(<<"~">>))
                                  @@ ("dependencies" :> SeqNode(<<Plain(SystemsCombat)>>))))),
                           Entry(Inventory, TRUE,
                                 YamlFile(MapNode(
                                     ("dependencies" :>
                                         SeqNode(<<Plain(CombatSystem), Plain(Combat)>>))))) >>)
      @@ ("Levels" :> << Entry(Menu, TRUE, Absent) >>))

ProjectB ==
    Tree(TRUE, TRUE,
         ("_Core" :> << Entry(Combat, TRUE, Unreadable) >>)
      @@ ("_Managers" :> << Entry(<<"~", "old">>, TRUE, Absent),
                            Entry(Audio, TRUE,
                                  YamlFile(MapNode(
                                      ("name" :> Plain(<<"Sound">>))
                                   @@ ("assembly" :> Plain(<<"Sound", ".", "asmdef">>))
                                   @@ ("dependencies" :> SeqNode(<<Plain(CombatSystem)>>))))) >>)
      @@ ("Levels" :> << Entry(Menu, TRUE, YamlFile(Plain(<<>>))) >>))

\* a descriptor with explicit nulls
ProjectNulls ==
    Tree(TRUE, TRUE,
         ("Features" :> << Entry(Combat, TRUE,
                                 YamlFile(MapNode(
                                     ("name" :> Plain(<<"null">>))
                                  @@ ("dependencies" :> Plain(<<"~">>))))),
                           Entry(Audio, TRUE,
                                 YamlFile(MapNode(
                                     ("dependencies" :> SeqNode(<<Plain(Combat)>>))))) >>))

\* a descriptor that parses to a str, not to a mapping
ProjectText ==
    Tree(TRUE, TRUE,
         ("_Core" :> << Entry(Combat, TRUE, Absent),
                        Entry(Audio, TRUE, YamlFile(Plain(<<"notes">>))) >>)
      @@ ("Levels" :> << Entry(Menu, TRUE, Absent) >>))

ProjectNoRoot == Tree(FALSE, FALSE, <<>>)
ProjectNoAssets == Tree(TRUE, FALSE, <<>>)

Projects == <<ProjectA, ProjectB, ProjectNulls, ProjectText, ProjectNoRoot,
              ProjectNoAssets>>

\* a well-formed document written by hand or by an earlier version
DocumentValid ==
    YamlFile(MapNode(
        ("version" :> Quoted(<<"true">>))
     @@ ("project_path" :> Plain(<<"null">>))
     @@ ("last_scan" :> Quoted(isoformat(0)))
     @@ ("modules" :> SeqNode(<<
            MapNode(("name" :> Plain(Combat))
                 @@ ("type" :> Plain(<<"core">>))
                 @@ ("path" :> Plain(RelativePath("_Core", Combat)))
                 @@ ("has_yaml" :> Plain(<<"false">>))
                 @@ ("version" :> Plain(<<"null">>))
                 @@ ("description" :> Plain(<<"null">>))
                 @@ ("dependencies" :> SeqNode(<<>>))
                 @@ ("assembly" :> Plain(<<"null">>))),
            MapNode(("name" :> Plain(Audio))
                 @@ ("type" :> Plain(<<"manager">>))
                 @@ ("dependencies" :> SeqNode(<<Plain(CombatSystem)>>))) >>))))

\* the top level is a list
DocumentList == YamlFile(SeqNode(<<Plain(Combat)>>))

\* last_scan is a str that is no ISO timestamp
DocumentBadStamp ==
    YamlFile(MapNode(
        ("version" :> Quoted(<<"2">>))
     @@ ("last_scan" :> Plain(<<"yesterday">>))
     @@ ("modules" :> SeqNode(<<MapNode("name" :> Plain(Combat))>>))))

\* last_scan is an unquoted timestamp, which YAML reads as a datetime
DocumentPlainStamp ==
    YamlFile(MapNode(
        ("last_scan" :> Plain(isoformat(0)))
     @@ ("modules" :> SeqNode(<<>>))))

\* an entry of modules is a str
DocumentStrEntry == YamlFile(MapNode("modules" :> SeqNode(<<Plain(Combat)>>)))

\* an entry of modules carries explicit nulls
DocumentNulls ==
    YamlFile(MapNode(
        "modules" :> SeqNode(<<
            MapNode(("name" :> Plain(<<"null">>))
                 @@ ("type" :> Plain(<<"feature">>))
                 @@ ("path" :> Plain(<<"~">>))
                 @@ ("dependencies" :> Plain(<<"null">>))) >>)))

\* an empty file
DocumentEmpty == YamlFile(Plain(<<>>))

Documents == <<Unreadable, Undecodable, BadYaml, DocumentEmpty, DocumentValid,
               DocumentList, DocumentBadStamp, DocumentPlainStamp,
               DocumentStrEntry, DocumentNulls>>

\* the arguments the queries are called with
TypeArgs == <<None, Str(<<>>), Str(<<"core">>), Str(<<"bogus">>)>>
NameArgs == <<Str(Combat), Str(Audio)>>

----------------------------------------------------------------------------
(* The state machine *)

Raised(exc) == [exc |-> exc]

\* the registry document as save_registry() or others left it: never written,
\* written by save_registry() with the modules ms, or changed from outside
NeverSaved == [by |-> "nobody", modules |-> <<>>]
SavedBy(ms) == [by |-> "save_registry", modules |-> ms]
Outside == [by |-> "outside", modules |-> <<>>]
Returned == [exc |-> "none"]

\* after UnityModuleRegistryManager(unity_project_path=...) where no registry
\* document exists yet
Init ==
    /\ \E configured \in BOOLEAN :
          unity_project_path = IF configured THEN Str(ProjectPath) ELSE None
    /\ modules = <<>>
    /\ last_scan = None
    /\ registry_version = Str(DefaultVersion)
    /\ alive = TRUE
    /\ project = ProjectA
    /\ registry_file = Absent
    /\ data_dir = TRUE
    /\ clock = 1
    /\ edits = 0
    /\ op = "__init__"
    /\ result = [exc |-> "none", caught |-> "none"]
    /\ saved = NeverSaved

\* UnityModuleRegistryManager(unity_project_path, registry_path): a new manager
\* on the same registry path
Construct(configured) ==
    LET r == _load_registry(registry_file, <<>>, None, Str(DefaultVersion)) IN
    /\ unity_project_path' = IF configured THEN Str(ProjectPath) ELSE None
    /\ data_dir' = TRUE
    /\ alive' = (r.exc = "none")
    /\ modules' = IF r.exc = "none" THEN r.modules ELSE <<>>
    /\ last_scan' = IF r.exc = "none" THEN r.last_scan ELSE None
    /\ registry_version' = IF r.exc = "none" THEN r.registry_version
                           ELSE Str(DefaultVersion)
    /\ op' = "__init__"
    /\ result' = [exc |-> r.exc, caught |-> r.caught]
    /\ UNCHANGED <<project, registry_file, clock, edits, saved>>

\* a scan that also writes the registry document
ScanAndSave ==
    LET r == scan_modules(unity_project_path, project, modules) IN
    /\ alive
    /\ (r.exc = "none" => clock <= MaxClock)
    /\ IF r.exc = "none"
       THEN /\ modules' = r.modules
            /\ last_scan' = DateTime(clock)
            /\ clock' = clock + 1
            /\ registry_file' =
                  IF data_dir
                  THEN YamlFile(safe_dump(SaveData(registry_version, unity_project_path,
                                                   DateTime(clock), r.modules)))
                  ELSE registry_file
       ELSE UNCHANGED <<modules, last_scan, clock, registry_file>>
    /\ op' = "scan_modules"
    /\ result' = Raised(r.exc)
    /\ UNCHANGED <<unity_project_path, registry_version, alive, project,
                   data_dir, edits, saved>>

\* manager.scan_modules()
Scan ==
    LET r == scan_modules(unity_project_path, project, modules) IN
    /\ alive
    /\ (r.exc = "none" => clock <= MaxClock)
    /\ IF r.exc = "none"
       THEN /\ modules' = r.modules
            /\ last_scan' = DateTime(clock)
            /\ clock' = clock + 1
       ELSE UNCHANGED <<modules, last_scan, clock>>
    /\ op' = "scan_modules"
    /\ result' = Raised(r.exc)
    /\ UNCHANGED <<unity_project_path, registry_version, alive, project,
                   registry_file, data_dir, edits, saved>>

\* manager.save_registry()
Save ==
    LET r == save_registry(data_dir, registry_version, unity_project_path,
                           last_scan, modules) IN
    /\ alive
    /\ registry_file' = IF r.exc = "none" THEN r.file ELSE registry_file
    /\ saved' = IF r.exc = "none" THEN SavedBy(modules) ELSE saved
    /\ op' = "save_registry"
    /\ result' = Raised(r.exc)
    /\ UNCHANGED <<unity_project_path, modules, last_scan, registry_version, alive,
                   project, data_dir, clock, edits>>

\* manager.get_modules(module_type)
GetModules(i) ==
    LET r == get_modules(modules, TypeArgs[i]) IN
    /\ alive
    /\ op' = "get_modules"
    /\ result' = [exc |-> r.exc, arg |-> TypeArgs[i], value |-> r.value]
    /\ UNCHANGED <<unity_project_path, modules, last_scan, registry_version, alive,
                   project, registry_file, data_dir, clock, edits, saved>>

\* manager.find_dependents(name)
FindDependents(i) ==
    LET r == find_dependents(modules, NameArgs[i]) IN
    /\ alive
    /\ op' = "find_dependents"
    /\ result' = [exc |-> r.exc, arg |-> NameArgs[i], value |-> r.value]
    /\ UNCHANGED <<unity_project_path, modules, last_scan, registry_version, alive,
                   project, registry_file, data_dir, clock, edits, saved>>

\* manager.generate_report(): it creates the report's directory, which is the
\* registry's, before it writes
GenerateReport ==
    LET r == generate_report(modules) IN
    /\ alive
    /\ data_dir' = IF r.exc = "none" THEN TRUE ELSE data_dir
    /\ op' = "generate_report"
    /\ result' = r
    /\ UNCHANGED <<unity_project_path, modules, last_scan, registry_version, alive,
                   project, registry_file, clock, edits, saved>>

\* the Unity project changes on disk
EditProject(i) ==
    /\ edits < MaxEdits
    /\ project # Projects[i]
    /\ project' = Projects[i]
    /\ edits' = edits + 1
    /\ op' = "edit"
    /\ result' = Returned
    /\ UNCHANGED <<unity_project_path, modules, last_scan, registry_version, alive,
                   registry_file, data_dir, clock, saved>>

\* the registry document is replaced on disk
EditDocument(i) ==
    /\ edits < MaxEdits
    /\ data_dir
    /\ registry_file # Documents[i]
    /\ registry_file' = Documents[i]
    /\ saved' = Outside
    /\ edits' = edits + 1
    /\ op' = "edit"
    /\ result' = Returned
    /\ UNCHANGED <<unity_project_path, modules, last_scan, registry_version, alive,
                   project, data_dir, clock>>

\* the registry's directory is removed with what it holds
RemoveDataDir ==
    /\ edits < MaxEdits
    /\ data_dir
    /\ data_dir' = FALSE
    /\ registry_file' = Absent
    /\ saved' = Outside
    /\ edits' = edits + 1
    /\ op' = "edit"
    /\ result' = Returned
    /\ UNCHANGED <<unity_project_path, modules, last_scan, registry_version, alive,
                   project, clock>>

Next ==
    \/ \E configured \in BOOLEAN : Construct(configured)
    \/ Scan
    \/ Save
    \/ \E i \in 1..Len(TypeArgs) : GetModules(i)
    \/ \E i \in 1..Len(NameArgs) : FindDependents(i)
    \/ GenerateReport
    \/ \E i \in 1..Len(Projects) : EditProject(i)
    \/ \E i \in 1..Len(Documents) : EditDocument(i)
    \/ RemoveDataDir

Spec == Init /\ [][Next]_vars
----------------------------------------------------------------------------
(* Properties *)

IsStr(v) == v.k = "str"
IsOptionalStr(v) == v.k \in {"str", "none"}
IsListOfStr(v) == v.k = "list" /\ \A i \in 1..Len(v.items) : IsStr(v.items[i])

\* a module whose fields have the types UnityModule declares
ValidModule(m) ==
    /\ IsStr(m.name) /\ IsStr(m.type) /\ IsStr(m.path)
    /\ m.has_yaml.k = "bool"
    /\ IsOptionalStr(m.version) /\ IsOptionalStr(m.description)
    /\ IsOptionalStr(m.assembly)
    /\ IsListOfStr(m.dependencies)

\* a registry whose fields have the declared types
ValidRegistry ==
    /\ IsStr(registry_version)
    /\ last_scan.k \in {"none", "datetime"}
    /\ \A i \in 1..Len(modules) : ValidModule(modules[i])

\* C1: a manager constructed right after a successful save_registry() of a valid
\* registry holds the same version, the same last_scan and the same modules in
\* the same order, field for field.
C1_RoundTrip ==
    [][(op = "save_registry" /\ result.exc = "none" /\ ValidRegistry
          /\ op' = "__init__")
       => (/\ alive'
           /\ result'.exc = "none"
           /\ registry_version' = registry_version
           /\ last_scan' = last_scan
           /\ modules' = modules)]_vars

\* a manager loaded from the document its own registry dumps to, with a set
\* last_scan, strings that YAML must quote, a module with no dependencies and
\* unset optional fields, and a module with dependencies
C1_Witness ==
    /\ op = "__init__" /\ alive /\ ValidRegistry
    /\ registry_file = YamlFile(safe_dump(SaveData(registry_version, unity_project_path,
                                                   last_scan, modules)))
    /\ last_scan # None
    /\ \E i \in 1..Len(modules) :
          /\ modules[i].dependencies = List(<<>>)
          /\ modules[i].version = None
          /\ modules[i].assembly = None
    /\ \E i \in 1..Len(modules) :
          /\ modules[i].description = Str(<<"~">>)
          /\ modules[i].dependencies # List(<<>>)

\* C2: the constructor never raises because of the document at the registry
\* path, and when the load failed the manager starts with no modules.
C2_ConstructionNeverFails ==
    op = "__init__" =>
        /\ alive
        /\ result.exc = "none"
        /\ (result.caught # "none" => modules = <<>>)

\* C3: scan_modules() with the project root unset or missing, or without the
\* Assets folder, raises UnityModuleRegistryError and leaves modules and
\* last_scan as they were.
C3_FailedScanKeepsState ==
    [][(op' = "scan_modules"
          /\ (~Truthy(unity_project_path) \/ ~project.root \/ ~project.assets))
       => (/\ result'.exc = "UnityModuleRegistryError"
           /\ modules' = modules
           /\ last_scan' = last_scan)]_vars

\* a scan that failed for the missing Assets folder, with an earlier scan's
\* modules and last_scan still held
C3_Witness ==
    /\ op = "scan_modules" /\ result.exc = "UnityModuleRegistryError"
    /\ project.root /\ ~project.assets
    /\ modules # <<>> /\ last_scan # None

\* the folders of the tree that a scan turns into modules, as paths
DiscoverablePaths(proj) ==
    UNION {
        LET folder_name == MODULE_TYPE_FOLDERS[i][1] IN
        IF folder_name \notin DOMAIN proj.folders THEN {}
        ELSE {RelativePath(folder_name, proj.folders[folder_name][j].name) :
                j \in {n \in 1..Len(proj.folders[folder_name]) :
                         LET e == proj.folders[folder_name][n]
                         IN e.is_dir /\ e.name[1] \notin {".", "~"}}}
        : i \in 1..Len(MODULE_TYPE_FOLDERS)}

\* C4: a successful scan_modules() leaves exactly one module per module folder
\* of the current tree, whatever the list held before, and records the time of
\* the scan; a second scan of the unchanged tree yields the same list.
C4_ScanReplaces ==
    [][(op' = "scan_modules" /\ result'.exc = "none")
       => (/\ Len(modules') = Cardinality(DiscoverablePaths(project))
           /\ {modules'[i].path : i \in 1..Len(modules')}
                = {Str(p) : p \in DiscoverablePaths(project)}
           /\ last_scan' = DateTime(clock)
           /\ last_scan' # last_scan
           /\ ((op = "scan_modules" /\ result.exc = "none") => modules' = modules))]_vars

\* a second successful scan, over another tree than the first
C4_Witness ==
    /\ op = "scan_modules" /\ result.exc = "none"
    /\ project = ProjectB
    /\ last_scan = DateTime(2)
    /\ Len(modules) = 3

\* module.yaml exists and is no usable key-value document
Malformed(file) ==
    \/ file.f \in {"unreadable", "undecodable", "badyaml"}
    \/ file.f = "yaml" /\ safe_load(file.node).k \notin {"dict", "none"}

\* C5: a scan whose preconditions hold completes whatever the descriptors
\* hold, and a folder with a malformed descriptor yields the default module
\* with has_yaml = true.
C5_MalformedNeverAborts ==
    (op = "scan_modules" /\ Truthy(unity_project_path) /\ project.root
       /\ project.assets)
    => /\ result.exc = "none"
       /\ \A i \in 1..Len(MODULE_TYPE_FOLDERS) :
            LET folder_name == MODULE_TYPE_FOLDERS[i][1] IN
            folder_name \in DOMAIN project.folders =>
              \A j \in 1..Len(project.folders[folder_name]) :
                LET e == project.folders[folder_name][j] IN
                (~Skipped(e) /\ Malformed(e.module_yaml)) =>
                  \E n \in 1..Len(modules) :
                    modules[n] = UnityModule(Str(e.name),
                                             Str(<<MODULE_TYPE_FOLDERS[i][2]>>),
                                             Str(RelativePath(folder_name, e.name)),
                                             Bool(TRUE), None, None, List(<<>>), None)

\* C6: every module of the in-memory list has name, type and path set and
\* dependencies a sequence.
C6_ModuleFieldsSet ==
    \A i \in 1..Len(modules) :
        /\ modules[i].name # None
        /\ modules[i].type # None
        /\ modules[i].path # None
        /\ modules[i].dependencies.k = "list"

\* the modules of ms whose type is the tag t, in order
OfType(ms, t) ==
    LET has_type(m) == m.type = t IN SelectSeq(ms, has_type)

\* C7: get_modules with a provided type that is no valid tag raises ValueError;
\* with a valid tag it returns the modules of that type in stored order; with
\* no filter it returns all modules.
C7_GetModules ==
    op = "get_modules" =>
        IF result.arg = None
        THEN result.exc = "none" /\ result.value = modules
        ELSE IF \E t \in valid_types : result.arg = Str(<<t>>)
        THEN result.exc = "none" /\ result.value = OfType(modules, result.arg)
        ELSE result.exc = "ValueError"

\* the module has a dependency entry that contains name or ends with "/" + name
HasMatchingEntry(m, name) ==
    /\ m.dependencies.k = "list"
    /\ \E i \in 1..Len(m.dependencies.items) :
          LET dep == m.dependencies.items[i] IN
          /\ dep.k = "str"
          /\ \/ \E a \in 0..Len(dep.s), b \in 0..Len(dep.s) :
                    a + Len(name.s) + b = Len(dep.s)
                    /\ SubSeq(dep.s, a + 1, a + Len(name.s)) = name.s
             \/ \E a \in 0..Len(dep.s) :
                    a + 1 + Len(name.s) = Len(dep.s)
                    /\ dep.s[a + 1] = "/"
                    /\ SubSeq(dep.s, a + 2, Len(dep.s)) = name.s

\* the modules of ms with a dependency entry matching name, each once, in order
Dependents(ms, name) ==
    LET matches(m) == HasMatchingEntry(m, name) IN SelectSeq(ms, matches)

\* C8: the list find_dependents(name) returns is exactly the modules with a
\* dependency entry that contains name or ends with "/" + name, each once and
\* in stored order.
C8_FindDependents ==
    (op = "find_dependents" /\ result.exc = "none")
    => result.value = Dependents(modules, result.arg)

\* find_dependents("Combat") returned a module that names Systems/Combat and a
\* module that names both CombatSystem and Combat, and left others out
C8_Witness ==
    /\ op = "find_dependents" /\ result.exc = "none"
    /\ result.arg = Str(Combat)
    /\ Len(result.value) = 2
    /\ Len(modules) > 2
    /\ result.value[1].dependencies = List(<<Str(SystemsCombat)>>)
    /\ result.value[2].dependencies = List(<<Str(CombatSystem), Str(Combat)>>)

\* the modules with no dependencies that no module of ms depends on
Orphans(ms) ==
    LET orphan(m) == ~Truthy(m.dependencies) /\ Dependents(ms, m.name) = <<>>
    IN SelectSeq(ms, orphan)

\* C9: the orphans of a report are exactly the modules with empty dependencies
\* and no dependents, and orphan_count counts them.
C9_Orphans ==
    (op = "generate_report" /\ result.exc = "none")
    => /\ result.orphans = Orphans(modules)
       /\ result.orphan_count = Len(Orphans(modules))

\* a report with orphans, with a module left out for its dependencies and a
\* module without dependencies left out for its dependents
C9_Witness ==
    /\ op = "generate_report" /\ result.exc = "none"
    /\ result.orphan_count > 0
    /\ \E i \in 1..Len(modules) :
          /\ Truthy(modules[i].dependencies)
          /\ \A j \in 1..Len(result.orphans) : result.orphans[j] # modules[i]
    /\ \E i \in 1..Len(modules) :
          /\ ~Truthy(modules[i].dependencies)
          /\ Dependents(modules, modules[i].name) # <<>>
          /\ \A j \in 1..Len(result.orphans) : result.orphans[j] # modules[i]

\* C10: save_registry() succeeds whether or not the parent directory of the
\* registry path exists when it is called: it creates the directory and writes
\* the document.
C10_SaveCreatesParents ==
    op = "save_registry" =>
        /\ result.exc = "none"
        /\ data_dir
        /\ registry_file = YamlFile(safe_dump(SaveData(registry_version, unity_project_path,
                                                       last_scan, modules)))
\* C11: scan_modules() changes only modules and last_scan and leaves the
\* registry document as it was, so a manager constructed right after a scan
\* holds the modules save_registry() last wrote, or none if nothing was ever
\* saved, whatever the scan found.
C11_ScanNeverPersists ==
    [][/\ (op' = "scan_modules"
             => /\ registry_file' = registry_file
                /\ data_dir' = data_dir
                /\ registry_version' = registry_version
                /\ unity_project_path' = unity_project_path)
       /\ ((op = "scan_modules" /\ op' = "__init__" /\ saved.by # "outside")
             => /\ result'.exc = "none"
                /\ modules' = saved.modules)]_vars

\* a scan after a save that found other modules than the saved ones, with the
\* document still holding the saved ones
C11_Witness ==
    /\ op = "scan_modules" /\ result.exc = "none"
    /\ saved.by = "save_registry"
    /\ saved.modules # <<>>
    /\ modules # <<>>
    /\ modules # saved.modules
    /\ _load_registry(registry_file, <<>>, None, Str(DefaultVersion)).modules
         = saved.modules

====
